---- MODULE Spec2Model ----
(***************************************************************************)
(* Model of dev.py: the test dispatcher that builds the argument vector    *)
(* of one of six plotting scenarios, launches ./main with it and waits for *)
(* the child, turning a KeyboardInterrupt into proc.terminate().           *)
(*                                                                         *)
(* Python strings are modelled as sequences of one-character strings, so   *)
(* that str.strip, str.split and str.join are computed character by        *)
(* character; a token list is a sequence of such strings.                  *)
(***************************************************************************)
EXTENDS Integers, Sequences, FiniteSets, TLC

\* ------------------------------------------------------------------ bounds
\* Longest --aes string drawn.
MaxAesLen == 3
\* Largest --test identifier drawn (identifiers range over -1..MaxTestId).
MaxTestId == 7
\* Number of SIGINTs the user may deliver in one run.
MaxInterrupts == 2

\* Characters of the --aes strings drawn.
AesChars == {"a", "b", " "}
AesStrings == UNION {[1..n -> AesChars] : n \in 0..MaxAesLen}
TestIds == (0 - 1)..MaxTestId
\* Exit codes the opaque child may end with on its own.
ChildExitCodes == {0, 1}
\* Popen.returncode of a child killed by SIGTERM.
KilledBySigterm == 0 - 15
\* Exit status of a Python process that dies of an uncaught KeyboardInterrupt.
ExitKeyboardInterrupt == 128 + 2

\* ------------------------------------------------------- Python built-ins
\* Characters str.strip() removes.
IsSpace(c) == c \in {" ", "\t", "\n", "\r"}

RECURSIVE lstrip(_)
lstrip(s) ==
    IF s # <<>> /\ IsSpace(Head(s)) THEN lstrip(Tail(s)) ELSE s

RECURSIVE rstrip(_)
rstrip(s) ==
    IF s # <<>> /\ IsSpace(s[Len(s)]) THEN rstrip(SubSeq(s, 1, Len(s) - 1)) ELSE s

\* s.strip()
strip(s) == rstrip(lstrip(s))

\* Index of the first occurrence of character sep in s, 0 when there is none.
find(s, sep) ==
    IF \E i \in 1..Len(s) : s[i] = sep
    THEN CHOOSE i \in 1..Len(s) : s[i] = sep /\ \A j \in 1..(i - 1) : s[j] # sep
    ELSE 0

\* s.split(sep) for a one-character separator: every occurrence of sep cuts,
\* so adjacent separators and the empty string yield empty tokens.
RECURSIVE split(_, _)
split(s, sep) ==
    LET i == find(s, sep)
    IN  IF i = 0 THEN <<s>>
        ELSE <<SubSeq(s, 1, i - 1)>> \o split(SubSeq(s, i + 1, Len(s)), sep)

\* sep.join(strs): the elements in order with sep between neighbours
\* (computed by halves, the result is that of the left-to-right join).
RECURSIVE join(_, _)
join(sep, strs) ==
    IF strs = <<>> THEN <<>>
    ELSE IF Len(strs) = 1 THEN strs[1]
    ELSE LET h == Len(strs) \div 2
         IN  join(sep, SubSeq(strs, 1, h)) \o sep
                 \o join(sep, SubSeq(strs, h + 1, Len(strs)))

\* range(n) as a list
range(n) == [i \in 1..n |-> i - 1]

Digit(d) == <<"0", "1", "2", "3", "4", "5", "6", "7", "8", "9">>[d + 1]

\* str(n) of an int n >= 0
RECURSIVE StrInt(_)
StrInt(n) ==
    IF n < 10 THEN <<Digit(n)>> ELSE StrInt(n \div 10) \o <<Digit(n % 10)>>

\* The float i/d is kept as the exact quotient of its operands.
FloatDiv(i, d) == [num |-> i, den |-> d]

\* str(i/d) where i/d has one decimal digit (d is 10 or 5 here): the double
\* i/d is the one nearest to that decimal, whose shortest repr is "<int>.<digit>".
StrFloat(q) ==
    LET tenths == (q.num * 10) \div q.den
    IN  StrInt(tenths \div 10) \o <<".">> \o <<Digit(tenths % 10)>>

\* math.sin(q): the value is kept symbolic.
sin(q) == [sin_of |-> q]

\* str(math.sin(q)): "0.0" for sin(0.0); otherwise the digits are not computed,
\* the string stands for a float repr, which holds neither "," nor " ".
StrSin(v) ==
    IF v.sin_of.num = 0 THEN <<"0", ".", "0">>
    ELSE <<"s", "i", "n", "(">> \o StrFloat(v.sin_of) \o <<")">>

\* map(str, x) for a list of ints, of quotients and of sines
StrInts(xs) == [i \in DOMAIN xs |-> StrInt(xs[i])]
StrFloats(xs) == [i \in DOMAIN xs |-> StrFloat(xs[i])]
StrSins(xs) == [i \in DOMAIN xs |-> StrSin(xs[i])]

\* to_str(x) == ", ".join(map(str, x)), applied to the list map(str, x)
to_str(strs) == join(<<",", " ">>, strs)

\* ------------------------------------------------------------- generators

\* x of test1 with range(1, 100) in the place of range(0, 100).
test1_x_from1 == [i \in 1..99 |-> FloatDiv(i, 10)]

\* x = [i/10 for i in range(0, 100)]; y = [math.sin(i) for i in x]
test1_x == [i \in 1..100 |-> FloatDiv(range(100)[i], 10)]
test1_y == [i \in DOMAIN test1_x |-> sin(test1_x[i])]

\* ["-x", to_str(x), "-y", to_str(y)], the part of the return value that
\* does not depend on aes
test1_tokens ==
    <<<<"-", "x">>, to_str(StrFloats(test1_x)), <<"-", "y">>, to_str(StrSins(test1_y))>>

test1(aes) ==
    [x |-> test1_x, y |-> test1_y, ret |-> test1_tokens \o aes]

\* y of test2 without y.extend(y).
test2_y_not_extended == range(8)

\* x = [i for i in range(5)]; y = [i for i in range(8)]; y.extend(y)
test2_x == range(5)
test2_y == LET y0 == range(8) IN y0 \o y0

\* ["-x", to_str(x), "-y", to_str(y)], the part of the return value that
\* does not depend on aes
test2_tokens ==
    <<<<"-", "x">>, to_str(StrInts(test2_x)), <<"-", "y">>, to_str(StrInts(test2_y))>>

\* test2 returning [*aes, "-x", ...]: the extra tokens first.
test2_aes_first(aes) ==
    [x |-> test2_x, y |-> test2_y, ret |-> aes \o test2_tokens]

test2(aes) ==
    [x |-> test2_x, y |-> test2_y, ret |-> test2_tokens \o aes]

\* x = [i/5 for i in range(0, 5)]; y = [math.sin(i) for i in x]
test3_x == [i \in 1..5 |-> FloatDiv(range(5)[i], 5)]
test3_y == [i \in DOMAIN test3_x |-> sin(test3_x[i])]

\* ["-x", to_str(x), "-y", to_str(y)], the part of the return value that
\* does not depend on aes
test3_tokens ==
    <<<<"-", "x">>, to_str(StrFloats(test3_x)), <<"-", "y">>, to_str(StrSins(test3_y))>>

test3(aes) ==
    [x |-> test3_x, y |-> test3_y, ret |-> test3_tokens \o aes]

test4_lit1 ==
    <<"-","P"," ","-","x"," ","\"","1",",","2",",","3","\"",
      " ","-","y"," ","\"","1",",","4",",","9","\""," ","-","t"," ","l","i",
      "n","e","s"," ","-","c"," ","r","e","d">>
test4_lit2 ==
    <<"-","P"," ","-","x"," ","\"","1",",","2",",","3","\"",
      " ","-","y"," ","\"","2",",","3",",","4","\""," ","-","t"," ","p","o",
      "i","n","t","s"," ","-","c"," ","b","l","u","e">>
test5_lit1 ==
    <<"-","P"," ","-","-","f","i","l","e"," ","t","e","s","t",
      ".","d","a","t"," ","-","x","1"," ","-","y","2"," ","-","t"," ","l",
      "i","n","e","s"," ","-","c"," ","r","e","d">>
test5_lit2 ==
    <<"-","P"," ","-","x"," ","\"","1",",","2",",","3",",",
      "4","\""," ","-","y"," ","\"","3",",","6",",","9",",","1","2","\"",
      " ","-","t"," ","p","o","i","n","t","s"," ","-","c"," ","b","l","u",
      "e">>
test6_lit1 ==
    <<"-","P"," ","-","x"," ","\"","1",",","2",",","3",",",
      "4","\""," ","-","y"," ","\"","3",",","6",",","9",",","1","2","\"",
      " ","-","t"," ","p","o","i","n","t","s"," ","-","c"," ","b","l","u",
      "e">>
test6_lit2 ==
    <<"-","P"," ","-","-","f","i","l","e"," ","t","e","s","t",
      ".","d","a","t"," ","-","x","1"," ","-","y","2"," ","-","t"," ","l",
      "i","n","e","s"," ","-","c"," ","r","e","d">>

\* args = (literal + " " + literal).split(" ")
test4_args == split(test4_lit1 \o <<" ">> \o test4_lit2, " ")
test5_args == split(test5_lit1 \o <<" ">> \o test5_lit2, " ")
test6_args == split(test6_lit1 \o <<" ">> \o test6_lit2, " ")

\* test4 returning [*args, *aes], as test1..test3 do.
test4_appending(aes) == [x |-> <<>>, y |-> <<>>, ret |-> test4_args \o aes]

\* The literal generators return args and ignore their aes parameter.
test4(aes) == [x |-> <<>>, y |-> <<>>, ret |-> test4_args]

test5(aes) == [x |-> <<>>, y |-> <<>>, ret |-> test5_args]

test6(aes) == [x |-> <<>>, y |-> <<>>, ret |-> test6_args]

\* test_cases = {1: test1, ..., 6: test6}
test_cases ==
    (1 :> "test1") @@ (2 :> "test2") @@ (3 :> "test3") @@
    (4 :> "test4") @@ (5 :> "test5") @@ (6 :> "test6")

\* test_cases[t](aes)
Call(fn, aes) ==
    CASE fn = "test1" -> test1(aes)
      [] fn = "test2" -> test2(aes)
      [] fn = "test3" -> test3(aes)
      [] fn = "test4" -> test4(aes)
      [] fn = "test5" -> test5(aes)
      [] fn = "test6" -> test6(aes)

\* ------------------------------------------------------------------ state
VARIABLES
    test,          \* args.test
    aes,           \* args.aes, the string as given
    pc,            \* the statement the dispatcher is at
    aesList,       \* aes after line 72, the list handed to the generator
    generated,     \* whether a generator has been invoked
    series_x,      \* the generator's local x
    series_y,      \* the generator's local y
    proc_args,     \* the generator's return value
    stdout,        \* what the dispatcher printed
    argv,          \* the argument vector of the child, <<>> when none
    child,         \* "none", "running", "exited" (not collected), "reaped"
    childRc,       \* the child's exit code once it has exited
    sigterm,       \* whether SIGTERM has been sent to the child
    returncode,    \* proc.returncode: <<>> for None, <<rc>> once collected
    termRequests,  \* number of calls of proc.terminate()
    interrupts,    \* number of SIGINTs delivered to the dispatcher
    intWhileRunning, \* whether a SIGINT arrived while the child was running
    waitEnd,       \* how the wait loop was left: "none", "child_exit", "interrupt"
    endedBy,       \* how the run ended
    exitStatus     \* the dispatcher's exit status, meaningful at pc = "done"

vars ==
    <<test, aes, pc, aesList, generated, series_x, series_y, proc_args, stdout,
      argv, child, childRc, sigterm, returncode, termRequests, interrupts,
      intWhileRunning, waitEnd, endedBy, exitStatus>>

inputVars == <<test, aes>>
genVars == <<aesList, generated, series_x, series_y, proc_args>>
childVars == <<argv, child, childRc, sigterm, returncode>>
intVars == <<interrupts, intWhileRunning>>
endVars == <<endedBy, exitStatus>>

Init ==
    /\ test \in TestIds
    /\ aes \in AesStrings
    /\ pc = "lookup"
    /\ aesList = <<>>
    /\ generated = FALSE
    /\ series_x = <<>>
    /\ series_y = <<>>
    /\ proc_args = <<>>
    /\ stdout = <<>>
    /\ argv = <<>>
    /\ child = "none"
    /\ childRc = 0
    /\ sigterm = FALSE
    /\ returncode = <<>>
    /\ termRequests = 0
    /\ interrupts = 0
    /\ intWhileRunning = FALSE
    /\ waitEnd = "none"
    /\ endedBy = "running"
    /\ exitStatus = 0

\* ------------------------------------------------------------- dispatcher
\* Lines 68-70 with exit(0) in the place of exit(1).
Lookup_exit0 ==
    /\ pc = "lookup"
    /\ IF test \notin DOMAIN test_cases
       THEN /\ stdout' = Append(stdout, "Test not found")
            /\ pc' = "done"
            /\ endedBy' = "not_found"
            /\ exitStatus' = 0
       ELSE /\ pc' = "split"
            /\ UNCHANGED <<stdout, endVars>>
    /\ UNCHANGED <<inputVars, genVars, childVars, intVars, termRequests, waitEnd>>

\* if (not args.test in test_cases): print(...); exit(1)
Lookup ==
    /\ pc = "lookup"
    /\ IF test \notin DOMAIN test_cases
       THEN /\ stdout' = Append(stdout, "Test not found")
            /\ pc' = "done"
            /\ endedBy' = "not_found"
            /\ exitStatus' = 1
       ELSE /\ pc' = "split"
            /\ UNCHANGED <<stdout, endVars>>
    /\ UNCHANGED <<inputVars, genVars, childVars, intVars, termRequests, waitEnd>>

\* aes = args.aes; aes = aes.strip().split(" ")
SplitAes ==
    /\ pc = "split"
    /\ aesList' = split(strip(aes), " ")
    /\ pc' = "generate"
    /\ UNCHANGED <<inputVars, generated, series_x, series_y, proc_args, stdout,
                   childVars, intVars, termRequests, waitEnd, endVars>>

\* proc_args = test_cases[args.test](aes)
Generate ==
    /\ pc = "generate"
    /\ LET r == Call(test_cases[test], aesList)
       IN  /\ series_x' = r.x
           /\ series_y' = r.y
           /\ proc_args' = r.ret
    /\ generated' = TRUE
    /\ stdout' = Append(stdout, "diagnostics")
    /\ pc' = "launch"
    /\ UNCHANGED <<inputVars, aesList, childVars, intVars, termRequests,
                   waitEnd, endVars>>

\* The program path "./main"
Main == <<".", "/", "m", "a", "i", "n">>

\* print("Running C program...\n"); proc = subprocess.Popen(["./main", *proc_args])
Launch ==
    /\ pc = "launch"
    /\ stdout' = Append(stdout, "Running C program...")
    /\ argv' = <<Main>> \o proc_args
    /\ child' = "running"
    /\ pc' = "pre_try"
    /\ UNCHANGED <<inputVars, genVars, childRc, sigterm, returncode, intVars,
                   termRequests, waitEnd, endVars>>

\* Popen raises (./main is missing or not executable): nothing handles it and
\* the interpreter ends with a traceback and exit status 1.
LaunchFault ==
    /\ pc = "launch"
    /\ stdout' = Append(stdout, "Running C program...")
    /\ pc' = "done"
    /\ endedBy' = "launch_fault"
    /\ exitStatus' = 1
    /\ UNCHANGED <<inputVars, genVars, childVars, intVars, termRequests, waitEnd>>

\* The try statement of line 81 is entered.
EnterTry ==
    /\ pc = "pre_try"
    /\ pc' = "poll"
    /\ UNCHANGED <<inputVars, genVars, stdout, childVars, intVars, termRequests,
                   waitEnd, endVars>>

\* The loop test with the comparison inverted: the loop is left while poll()
\* still returns None.
Poll_leaves_early ==
    /\ pc = "poll"
    /\ IF child = "exited"
       THEN /\ child' = "reaped"
            /\ returncode' = <<childRc>>
            /\ pc' = "sleep"
            /\ UNCHANGED <<waitEnd, endVars>>
       ELSE /\ IF returncode = <<>>
               THEN /\ pc' = "done"
                    /\ waitEnd' = "child_exit"
                    /\ endedBy' = "child_exit"
                    /\ exitStatus' = 0
               ELSE /\ pc' = "sleep"
                    /\ UNCHANGED <<waitEnd, endVars>>
            /\ UNCHANGED <<child, returncode>>
    /\ UNCHANGED <<inputVars, genVars, stdout, argv, childRc, sigterm, intVars,
                   termRequests>>

\* while proc.poll() is None: poll() collects the exit of a child that has
\* exited and sets returncode; the loop, the try statement and the script end
\* when it returns a value.
Poll ==
    /\ pc = "poll"
    /\ IF child = "exited"
       THEN /\ child' = "reaped"
            /\ returncode' = <<childRc>>
            /\ pc' = "done"
            /\ waitEnd' = "child_exit"
            /\ endedBy' = "child_exit"
            /\ exitStatus' = 0
       ELSE /\ pc' = "sleep"
            /\ UNCHANGED <<child, returncode, waitEnd, endVars>>
    /\ UNCHANGED <<inputVars, genVars, stdout, argv, childRc, sigterm, intVars,
                   termRequests>>

\* time.sleep(0.1)
Sleep ==
    /\ pc = "sleep"
    /\ pc' = "poll"
    /\ UNCHANGED <<inputVars, genVars, stdout, childVars, intVars, termRequests,
                   waitEnd, endVars>>

\* except KeyboardInterrupt: proc.terminate().  Popen.terminate() sends
\* SIGTERM unless the child's exit has been collected; CPython from 3.9 on
\* polls first and so collects the exit of a child that has already exited,
\* older versions do not.
Terminate ==
    /\ pc = "except"
    /\ termRequests' = termRequests + 1
    /\ \E pollsFirst \in BOOLEAN :
         IF child = "exited" /\ pollsFirst
         THEN /\ child' = "reaped"
              /\ returncode' = <<childRc>>
              /\ UNCHANGED sigterm
         ELSE /\ sigterm' = TRUE
              /\ UNCHANGED <<child, returncode>>
    /\ pc' = "report"
    /\ UNCHANGED <<inputVars, genVars, stdout, argv, childRc, intVars, waitEnd,
                   endVars>>

\* print("  Program terminated"); the script ends.
Report ==
    /\ pc = "report"
    /\ stdout' = Append(stdout, "Program terminated")
    /\ pc' = "done"
    /\ endedBy' = "terminated"
    /\ exitStatus' = 0
    /\ UNCHANGED <<inputVars, genVars, childVars, intVars, termRequests, waitEnd>>

\* ------------------------------------------------------------ environment
\* The user's SIGINT, delivered once a child has been launched: Python raises
\* KeyboardInterrupt at the statement the dispatcher is at.  Inside the try
\* statement (lines 82-83) the except clause catches it; before the try
\* statement is entered and inside the except clause nothing does, and the
\* interpreter ends.
Interrupt ==
    /\ pc # "done"
    /\ child # "none"
    /\ interrupts < MaxInterrupts
    /\ interrupts' = interrupts + 1
    /\ intWhileRunning' = (intWhileRunning \/ child = "running")
    /\ IF pc \in {"poll", "sleep"}
       THEN /\ pc' = "except"
            /\ waitEnd' = "interrupt"
            /\ UNCHANGED endVars
       ELSE /\ pc' = "done"
            /\ endedBy' = "uncaught_interrupt"
            /\ exitStatus' = ExitKeyboardInterrupt
            /\ UNCHANGED waitEnd
    /\ UNCHANGED <<inputVars, genVars, stdout, childVars, termRequests>>

\* The child ends, on its own or killed by a SIGTERM it was sent.
ChildExit ==
    /\ child = "running"
    /\ child' = "exited"
    /\ childRc' \in ChildExitCodes \cup (IF sigterm THEN {KilledBySigterm} ELSE {})
    /\ UNCHANGED <<inputVars, pc, genVars, stdout, argv, sigterm, returncode,
                   intVars, termRequests, waitEnd, endVars>>

DispatcherStep ==
    \/ Lookup
    \/ SplitAes
    \/ Generate
    \/ Launch
    \/ LaunchFault
    \/ EnterTry
    \/ Poll
    \/ Sleep
    \/ Terminate
    \/ Report

Next ==
    \/ DispatcherStep
    \/ Interrupt
    \/ ChildExit

Spec == Init /\ [][Next]_vars

\* The dispatcher is a running process: it keeps taking its next step.
LiveSpec == Spec /\ WF_vars(DispatcherStep)

\* ------------------------------------------------------------- properties
Launched == child # "none"
Known == test \in 1..6

\* Number of elements of a series encoded as a comma-joined token.
ElemCount(tok) == Cardinality({i \in 1..Len(tok) : tok[i] = ","}) + 1

\* Whether every character of s is whitespace (the empty string included).
Blank(s) == \A i \in 1..Len(s) : IsSpace(s[i])

\* The token lists of the literal scenarios, written out token by token.
Scenario4Tokens ==
    << <<"-","P">>,
       <<"-","x">>,
       <<"\"","1",",","2",",","3","\"">>,
       <<"-","y">>,
       <<"\"","1",",","4",",","9","\"">>,
       <<"-","t">>,
       <<"l","i","n","e","s">>,
       <<"-","c">>,
       <<"r","e","d">>,
       <<"-","P">>,
       <<"-","x">>,
       <<"\"","1",",","2",",","3","\"">>,
       <<"-","y">>,
       <<"\"","2",",","3",",","4","\"">>,
       <<"-","t">>,
       <<"p","o","i","n","t","s">>,
       <<"-","c">>,
       <<"b","l","u","e">> >>

Scenario5Tokens ==
    << <<"-","P">>,
       <<"-","-","f","i","l","e">>,
       <<"t","e","s","t",".","d","a","t">>,
       <<"-","x","1">>,
       <<"-","y","2">>,
       <<"-","t">>,
       <<"l","i","n","e","s">>,
       <<"-","c">>,
       <<"r","e","d">>,
       <<"-","P">>,
       <<"-","x">>,
       <<"\"","1",",","2",",","3",",","4","\"">>,
       <<"-","y">>,
       <<"\"","3",",","6",",","9",",","1","2","\"">>,
       <<"-","t">>,
       <<"p","o","i","n","t","s">>,
       <<"-","c">>,
       <<"b","l","u","e">> >>

Scenario6Tokens ==
    << <<"-","P">>,
       <<"-","x">>,
       <<"\"","1",",","2",",","3",",","4","\"">>,
       <<"-","y">>,
       <<"\"","3",",","6",",","9",",","1","2","\"">>,
       <<"-","t">>,
       <<"p","o","i","n","t","s">>,
       <<"-","c">>,
       <<"b","l","u","e">>,
       <<"-","P">>,
       <<"-","-","f","i","l","e">>,
       <<"t","e","s","t",".","d","a","t">>,
       <<"-","x","1">>,
       <<"-","y","2">>,
       <<"-","t">>,
       <<"l","i","n","e","s">>,
       <<"-","c">>,
       <<"r","e","d">> >>

\* C1: for a scenario identifier outside 1..6 the run goes from the lookup
\* straight to its end with exit status 1; no generator is ever invoked and
\* no child is ever launched.
C1_UnknownTestExits1 ==
    ~Known =>
        /\ pc \in {"lookup", "done"}
        /\ ~generated
        /\ proc_args = <<>>
        /\ ~Launched
        /\ argv = <<>>
        /\ (pc = "done" => exitStatus = 1 /\ endedBy = "not_found")

C1_Witness == test = 7 /\ pc = "done" /\ exitStatus = 1 /\ ~generated /\ ~Launched

\* C2 (as claimed): an interrupt delivered while the child is launched and
\* has not exited leads to exactly one call of proc.terminate(): never more
\* than one in any state, and one by the end of the run.
C2_ExactlyOneTermination ==
    /\ termRequests <= 1
    /\ (pc = "done" /\ intWhileRunning => termRequests = 1)

C4_YTwiceX ==
    (test = 2 /\ generated) =>
        /\ Len(series_y) = 2 * Len(series_x)
        /\ LET h == Len(series_y) \div 2
           IN  series_y = SubSeq(series_y, 1, h) \o SubSeq(series_y, 1, h)

\* C4 (amended): in scenario 2, x has 5 elements and y has 16, twice the 8 it
\* had before duplication (not twice the length of x); y is its own first
\* half, 0..7, repeated; the '-x' and '-y' tokens encode 5 and 16 elements.
C4_YDuplicated ==
    (test = 2 /\ generated) =>
        /\ Len(series_x) = 5
        /\ Len(series_y) = 16
        /\ \A i \in 1..8 : series_y[i] = i - 1 /\ series_y[i + 8] = series_y[i]
        /\ series_y = SubSeq(series_y, 1, 8) \o SubSeq(series_y, 1, 8)
        /\ ElemCount(proc_args[2]) = 5
        /\ ElemCount(proc_args[4]) = 16

C4_Witness ==
    /\ test = 2
    /\ generated
    /\ Len(series_y) = 16
    /\ series_y[16] = 7
    /\ proc_args[2] = <<"0", ",", " ", "1", ",", " ", "2", ",", " ", "3", ",", " ", "4">>

\* C5 (as claimed): in scenario 4 the generator returns, and the child gets,
\* the same fixed literal list of 20 tokens whatever aes is.
C5_Fixed20Tokens ==
    (test = 4 /\ generated) =>
        /\ proc_args = Scenario4Tokens
        /\ Len(proc_args) = 20
        /\ (Launched => argv = <<Main>> \o Scenario4Tokens)

\* C5 (amended): in scenario 4 the generator returns, and the child gets,
\* the same fixed literal list whatever aes is; the list has 18 tokens.
C5_Fixed18Tokens ==
    (test = 4 /\ generated) =>
        /\ proc_args = Scenario4Tokens
        /\ Len(proc_args) = 18
        /\ (Launched => argv = <<Main>> \o Scenario4Tokens)

C5_Witness ==
    /\ test = 4
    /\ Launched
    /\ aes = <<"a", " ", "b">>
    /\ aesList = <<<<"a">>, <<"b">>>>
    /\ Len(argv) = 19

\* C6: in scenarios 1 and 3 the series encoded in the '-x' and '-y' tokens
\* have the same number of elements, 100 each with x[i] = i/10 in scenario 1
\* and 5 each with x[i] = i/5 in scenario 3, y being sin of x element by
\* element.
C6_EqualLengths ==
    (test \in {1, 3} /\ generated) =>
        LET n == IF test = 1 THEN 100 ELSE 5
            d == IF test = 1 THEN 10 ELSE 5
        IN  /\ Len(series_x) = n
            /\ Len(series_y) = n
            /\ \A i \in 1..n :
                  /\ series_x[i] = [num |-> i - 1, den |-> d]
                  /\ series_y[i] = [sin_of |-> series_x[i]]
            /\ proc_args[1] = <<"-", "x">>
            /\ proc_args[3] = <<"-", "y">>
            /\ ElemCount(proc_args[2]) = n
            /\ ElemCount(proc_args[4]) = n

C6_Witness ==
    /\ test = 1
    /\ generated
    /\ ElemCount(proc_args[2]) = 100
    /\ SubSeq(proc_args[2], 1, 8) = <<"0", ".", "0", ",", " ", "0", ".", "1">>
    /\ SubSeq(proc_args[2], Len(proc_args[2]) - 2, Len(proc_args[2])) = <<"9", ".", "9">>

\* C7 (as claimed): once the wait has ended, by the child's exit or by a user
\* interrupt, the run ends with exit status 0.
C7_EndsNormally ==
    (pc = "done" /\ waitEnd \in {"child_exit", "interrupt"}) => exitStatus = 0

\* C8: with a known scenario and no interrupt, proc.terminate() is never
\* called and the run never ends while the child is running; and once the
\* child has exited, the poll loop sees it and the run ends (or an interrupt
\* arrives).
C8_WaitsForChild ==
    /\ [](Known /\ interrupts = 0 =>
            /\ termRequests = 0
            /\ ~(pc = "done" /\ child = "running"))
    /\ ((Known /\ child = "exited" /\ interrupts = 0)
            ~> ((pc = "done" /\ endedBy = "child_exit" /\ child = "reaped")
                \/ interrupts > 0))

C8_Witness ==
    /\ Known
    /\ interrupts = 0
    /\ pc = "done"
    /\ endedBy = "child_exit"
    /\ child = "reaped"
    /\ returncode = <<1>>
    /\ exitStatus = 0

\* C9 (as claimed): when a run that launched the child ends, through the poll
\* loop or through proc.terminate(), the child's exit has been collected.
C9_ChildReaped ==
    (pc = "done" /\ endedBy \in {"child_exit", "terminated"}) =>
        /\ child = "reaped"
        /\ returncode # <<>>

\* C10 (as claimed): the list handed to the generator holds no empty token,
\* is empty when aes is empty or all whitespace, and scenarios 1-3 then
\* launch the child with exactly '-x', xs, '-y', ys.
C10_NoEmptyToken ==
    generated =>
        /\ \A i \in 1..Len(aesList) : aesList[i] # <<>>
        /\ (Blank(aes) => aesList = <<>>)
        /\ (Blank(aes) /\ test \in 1..3 /\ Launched => Len(argv) = 5)

====
